---- MODULE Spec2Model ----
(***************************************************************************)
(* Model of src/Ec2-start-stop-instances.py: a scheduled handler that      *)
(* lists the EC2 instances tagged Reboot=WORKDAY, starts the stopped ones  *)
(* inside the workday window 03:30:00 <= t < 08:00:00 UTC, stops the       *)
(* running ones outside it, and publishes one SNS report per action.       *)
(*                                                                         *)
(* Times of day are seconds since midnight; the two window ends are whole  *)
(* seconds, so a time with microseconds compares to them as its whole      *)
(* second does.  A report is a record of the                               *)
(* fields of the f-string that depend on the instance and on the outcome;  *)
(* the subject "EC2 Instance <x>" is the pair <<"EC2 Instance", x>>.       *)
(* The private address, instance type, timestamp and duration lines of the *)
(* report do not influence control flow and are left out of the record.    *)
(* The nested loop over reservations and their instances is modelled as    *)
(* one scan over the flattened list.  The response variable keeps the id   *)
(* and state of each listed instance; the 'Tags' entry of a listed         *)
(* instance is an input drawn when the loop reaches that instance.         *)
(***************************************************************************)
EXTENDS Integers, Sequences, FiniteSets, TLC

\* ---------------------------------------------------------------- bounds
MaxInstances == 2
MaxRuns == 2

\* times of day read by the handler: the last second before and the first
\* second at each end of the window (03:29:59, 03:30:00, 07:59:59, 08:00:00)
TimePoints == {12599, 12600, 28799, 28800}

\* EC2 instance-state names
States == {"pending", "running", "stopping", "stopped", "shutting-down", "terminated"}

Tag(k, v) == [Key |-> k, Value |-> v]

\* shapes of the 'Tags' entry of a listed instance: key absent, all three
\* descriptive tags, only Owner (with a lower-case "name" key that is not
\* the Name tag)
NoTags == [HasTags |-> FALSE, Tags |-> <<>>]
TagShapes ==
    { NoTags,
      [HasTags |-> TRUE,
       Tags |-> <<Tag("Reboot", "WORKDAY"), Tag("Name", "web"),
                  Tag("Environment", "prod"), Tag("Owner", "ana")>>],
      [HasTags |-> TRUE,
       Tags |-> <<Tag("Owner", "ana"), Tag("name", "db"), Tag("Reboot", "WORKDAY")>>] }

\* ----------------------------------------------------------- program text
region == "us-east-2"
LAMBDA_NAME == "ec2-scheduler-lambda"

\* datetime.strptime(s, "%H:%M:%S").time() of "h:m:s"
ParseTime(h, m, s) == h * 3600 + m * 60 + s

workday_start == ParseTime(3, 30, 0)
workday_stop == ParseTime(8, 0, 0)

InWindowStrictStart(t) == workday_start < t /\ t < workday_stop
InWindowClosedStop(t) == workday_start <= t /\ t <= workday_stop
\* workday_start <= current_utc_time < workday_stop
InWindow(t) == workday_start <= t /\ t < workday_stop

DecideStartUnlessRunning(t, s) ==
    IF InWindow(t)
    THEN (IF s # "running" THEN "start" ELSE "none")
    ELSE (IF s = "running" THEN "stop" ELSE "none")
DecideNotRunning(t, s) ==
    IF InWindow(t)
    THEN (IF s # "running" THEN "start" ELSE "none")
    ELSE (IF s # "stopped" THEN "stop" ELSE "none")
\* the state-change call of the try body: start, stop or none
Decide(t, s) ==
    IF InWindow(t)
    THEN (IF s = "stopped" THEN "start" ELSE "none")
    ELSE (IF s = "running" THEN "stop" ELSE "none")

TagDefaults == [instance_name |-> "N/A", environment |-> "N/A", owner |-> "N/A"]

TagStepSwapped(acc, tag) ==
    IF tag.Key = "Name" THEN [acc EXCEPT !.instance_name = tag.Value]
    ELSE IF tag.Key = "Environment" THEN [acc EXCEPT !.owner = tag.Value]
    ELSE IF tag.Key = "Owner" THEN [acc EXCEPT !.environment = tag.Value]
    ELSE acc
\* one pass of the body of `for tag in instance['Tags']`
TagStep(acc, tag) ==
    IF tag.Key = "Name" THEN [acc EXCEPT !.instance_name = tag.Value]
    ELSE IF tag.Key = "Environment" THEN [acc EXCEPT !.environment = tag.Value]
    ELSE IF tag.Key = "Owner" THEN [acc EXCEPT !.owner = tag.Value]
    ELSE acc

RECURSIVE ScanTags(_, _, _)
ScanTags(tags, k, acc) ==
    IF k > Len(tags) THEN acc
    ELSE ScanTags(tags, k + 1, TagStep(acc, tags[k]))

\* instance_name, environment, owner as the handler derives them
TagFields(inst) ==
    IF inst.HasTags THEN ScanTags(inst.Tags, 1, TagDefaults) ELSE TagDefaults

\* outcome of the try body up to and including the state-change call
NoCallIds == <<>>
TryBody(inst, t, callOk) ==
    LET d == Decide(t, inst.State) IN
    IF d = "start"
    THEN [call |-> "start", callIds |-> <<inst.InstanceId>>, raised |-> ~callOk,
          action |-> IF callOk THEN "STARTED" ELSE "None",
          current_state |-> IF callOk THEN "running" ELSE "unbound"]
    ELSE IF d = "stop"
    THEN [call |-> "stop", callIds |-> <<inst.InstanceId>>, raised |-> ~callOk,
          action |-> IF callOk THEN "STOPPED" ELSE "None",
          current_state |-> IF callOk THEN "stopped" ELSE "unbound"]
    ELSE [call |-> "none", callIds |-> NoCallIds, raised |-> FALSE,
          action |-> "None", current_state |-> inst.State]

\* the message and subject built in the try body
SuccessReport(inst, body) ==
    LET f == TagFields(inst) IN
    [Subject |-> <<"EC2 Instance", body.action>>,
     Action |-> body.action,
     InstanceId |-> inst.InstanceId,
     InstanceName |-> f.instance_name,
     Region |-> region,
     PreviousState |-> inst.State,
     CurrentState |-> body.current_state,
     Environment |-> f.environment,
     Owner |-> f.owner,
     LambdaName |-> LAMBDA_NAME,
     Result |-> "SUCCESS"]

\* the message and subject built in the except handler
FailureReport(inst, body) ==
    LET f == TagFields(inst) IN
    [Subject |-> <<"EC2 Instance", IF body.action # "None" THEN body.action ELSE "FAILED">>,
     Action |-> IF body.action # "None" THEN body.action ELSE "N/A",
     InstanceId |-> inst.InstanceId,
     InstanceName |-> f.instance_name,
     Region |-> region,
     PreviousState |-> inst.State,
     CurrentState |-> "ERROR",
     Environment |-> f.environment,
     Owner |-> f.owner,
     LambdaName |-> LAMBDA_NAME,
     Result |-> "FAILURE"]

NotificationsUncaughtPublish(inst, body, pubOk) ==
    IF body.raised THEN <<FailureReport(inst, body)>>
    ELSE IF body.action # "None"
         THEN (IF pubOk THEN <<SuccessReport(inst, body)>>
               ELSE <<SuccessReport(inst, body), FailureReport(inst, body)>>)
         ELSE <<>>
NotificationsAlways(inst, body, pubOk) ==
    IF body.raised THEN <<FailureReport(inst, body)>>
    ELSE <<SuccessReport(inst, body)>>
NotificationsStaleState(inst, body, pubOk) ==
    IF body.raised
    THEN <<[FailureReport(inst, body) EXCEPT !.CurrentState = inst.State]>>
    ELSE IF body.action # "None" THEN <<SuccessReport(inst, body)>>
    ELSE <<>>
\* the calls of send_sns_notification made while one instance is processed,
\* in order; pubOk says whether sns_client.publish returns or raises
Notifications(inst, body, pubOk) ==
    IF body.raised THEN <<FailureReport(inst, body)>>
    ELSE IF body.action # "None" THEN <<SuccessReport(inst, body)>>
    ELSE <<>>

IterationOutcomeCallEscapes(raised, pubOk) == IF raised THEN "raised" ELSE "next"
\* where the handler is after one instance: both the state-change error
\* (try/except of the loop body) and the publish error (try/except of
\* send_sns_notification) are caught, so control is back at the for statement
IterationOutcome(raised, pubOk) == "next"

LoadOutcomeSwallowed(ssmOk) == "idle"
\* module import: get_sns_topic_arn re-raises, so the import fails
LoadOutcome(ssmOk) == IF ssmOk THEN "idle" ELSE "aborted"

\* ------------------------------------------------------------ environment
\* what EC2 does to an instance on a successful call
AfterCall(s, call) ==
    IF call = "start" THEN "pending"
    ELSE IF call = "stop" THEN "stopping"
    ELSE s

\* the state a transition in progress ends in
Settled(s) ==
    IF s = "pending" THEN "running"
    ELSE IF s = "stopping" THEN "stopped"
    ELSE IF s = "shutting-down" THEN "terminated"
    ELSE s

\* ------------------------------------------------------------------ state
VARIABLES
    pc,             \* "load", "aborted", "idle", "next" (at the for statement),
                    \* "scan" (in the loop body), "returned", "raised"
    SNS_TOPIC_ARN,  \* "unset" or "arn"
    instances,      \* the tagged instances as EC2 holds them
    response,       \* the flattened describe_instances response of this run
    idx,            \* position of the scan in response
    run,            \* number of handler invocations so far
    nDescribe,      \* describe_instances calls so far
    last,           \* the loop body's locals after the latest instance
    decided,        \* this run: id -> "unseen" or the policy outcome
    nStart,         \* this run: id -> start_instances calls naming it
    nStop,          \* this run: id -> stop_instances calls naming it
    nPubs,          \* this run: id -> calls of send_sns_notification for it
    anyFailed,      \* this run: some state-change call raised
    side,           \* this run: "none", "in", "out" or "mixed" times read
    prevSide,       \* side of the run before this one
    prevOk,         \* the run before this one had no failed state-change call
    prevTransit     \* ids the run before this one listed as pending or stopping

vars == <<pc, SNS_TOPIC_ARN, instances, response, idx, run, nDescribe, last,
          decided, nStart, nStop, nPubs, anyFailed, side, prevSide, prevOk,
          prevTransit>>

Ids == 1..Len(instances)

NoLast ==
    [valid |-> FALSE, id |-> 0, inst |-> [InstanceId |-> 0, State |-> "none",
                                          HasTags |-> FALSE, Tags |-> <<>>],
     t |-> 0, call |-> "none", callIds |-> NoCallIds, raised |-> FALSE,
     reports |-> <<>>, pubOk |-> TRUE]

\* an entry of reservation['Instances']
MkInstance(listed, shape) ==
    [InstanceId |-> listed.InstanceId, State |-> listed.State,
     HasTags |-> shape.HasTags, Tags |-> shape.Tags]

Init ==
    /\ pc = "load"
    /\ SNS_TOPIC_ARN = "unset"
    /\ \E n \in 0..MaxInstances :
         \E st \in [1..n -> States] :
            instances = [k \in 1..n |-> [InstanceId |-> k, State |-> st[k]]]
    /\ response = <<>>
    /\ idx = 0
    /\ run = 0
    /\ nDescribe = 0
    /\ last = NoLast
    /\ decided = [k \in Ids |-> "unseen"]
    /\ nStart = [k \in Ids |-> 0]
    /\ nStop = [k \in Ids |-> 0]
    /\ nPubs = [k \in Ids |-> 0]
    /\ anyFailed = FALSE
    /\ side = "none"
    /\ prevSide = "none"
    /\ prevOk = TRUE
    /\ prevTransit = {}

\* ---------------------------------------------------------------- actions
\* import of the module: SNS_TOPIC_ARN = get_sns_topic_arn()
LoadModule ==
    /\ pc = "load"
    /\ \E ssmOk \in BOOLEAN :
         /\ pc' = LoadOutcome(ssmOk)
         /\ SNS_TOPIC_ARN' = IF ssmOk THEN "arn" ELSE "unset"
    /\ UNCHANGED <<instances, response, idx, run, nDescribe, last, decided,
                   nStart, nStop, nPubs, anyFailed, side, prevSide, prevOk,
                   prevTransit>>

\* lambda_handler up to the loop: describe_instances returns or raises
Invoke ==
    /\ pc \in {"idle", "returned", "raised"}
    /\ run < MaxRuns
    /\ run' = run + 1
    /\ nDescribe' = nDescribe + 1
    /\ last' = NoLast
    /\ decided' = [k \in Ids |-> "unseen"]
    /\ nStart' = [k \in Ids |-> 0]
    /\ nStop' = [k \in Ids |-> 0]
    /\ nPubs' = [k \in Ids |-> 0]
    /\ anyFailed' = FALSE
    /\ side' = "none"
    /\ prevSide' = side
    /\ prevOk' = ~anyFailed
    /\ prevTransit' = {k \in 1..Len(response) : response[k].State \in {"pending", "stopping"}}
    /\ \E describeOk \in BOOLEAN :
         IF describeOk
         THEN /\ response' = instances
              /\ idx' = 1
              /\ pc' = "next"
         ELSE /\ response' = <<>>
              /\ idx' = 0
              /\ pc' = "raised"
    /\ UNCHANGED <<SNS_TOPIC_ARN, instances>>

SideAfter(s, t) ==
    LET here == IF InWindow(t) THEN "in" ELSE "out" IN
    IF s = "none" THEN here ELSE IF s = here THEN s ELSE "mixed"

\* the for statement binds the next listed instance
NextInstance ==
    /\ pc = "next"
    /\ idx <= Len(response)
    /\ pc' = "scan"
    /\ last' = NoLast
    /\ UNCHANGED <<SNS_TOPIC_ARN, instances, response, idx, run, nDescribe,
                   decided, nStart, nStop, nPubs, anyFailed, side, prevSide,
                   prevOk, prevTransit>>

\* one pass of the loop body for response[idx]
ProcessInstance ==
    /\ pc = "scan"
    /\ idx <= Len(response)
    /\ \E shape \in TagShapes, t \in TimePoints, callOk \in BOOLEAN, pubOk \in BOOLEAN :
         LET inst == MkInstance(response[idx], shape)
             id == inst.InstanceId
             body == TryBody(inst, t, callOk)
             reports == Notifications(inst, body, pubOk)
             named == {body.callIds[j] : j \in 1..Len(body.callIds)}
         IN /\ (body.call = "none" => callOk)
            /\ (reports = <<>> => pubOk)
            /\ instances' = [k \in Ids |->
                   IF k \in named /\ ~body.raised
                   THEN [instances[k] EXCEPT !.State = AfterCall(@, body.call)]
                   ELSE instances[k]]
            /\ nStart' = [k \in Ids |->
                   IF k \in named /\ body.call = "start" THEN nStart[k] + 1 ELSE nStart[k]]
            /\ nStop' = [k \in Ids |->
                   IF k \in named /\ body.call = "stop" THEN nStop[k] + 1 ELSE nStop[k]]
            /\ nPubs' = [nPubs EXCEPT ![id] = @ + Len(reports)]
            /\ decided' = [decided EXCEPT ![id] = body.call]
            /\ anyFailed' = (anyFailed \/ body.raised)
            /\ side' = SideAfter(side, t)
            /\ last' = [valid |-> TRUE, id |-> id, inst |-> inst, t |-> t,
                        call |-> body.call, callIds |-> body.callIds,
                        raised |-> body.raised, reports |-> reports,
                        pubOk |-> pubOk]
            /\ pc' = IterationOutcome(body.raised, pubOk)
            /\ idx' = idx + 1
    /\ UNCHANGED <<SNS_TOPIC_ARN, response, run, nDescribe, prevSide, prevOk,
                   prevTransit>>

\* the loop is exhausted: log and return statusCode 200
Return ==
    /\ pc = "next"
    /\ idx > Len(response)
    /\ pc' = "returned"
    /\ last' = NoLast
    /\ UNCHANGED <<SNS_TOPIC_ARN, instances, response, idx, run, nDescribe,
                   decided, nStart, nStop, nPubs, anyFailed, side,
                   prevSide, prevOk, prevTransit>>

\* EC2 finishes a transition that is in progress.  The handler reads the
\* instances only in describe_instances, so a transition that ends during a
\* scan is seen by the next run at the earliest: it is taken between runs.
Settle ==
    /\ pc \in {"returned", "raised"}
    /\ \E k \in Ids :
         /\ Settled(instances[k].State) # instances[k].State
         /\ instances' = [instances EXCEPT ![k].State = Settled(@)]
    /\ UNCHANGED <<pc, SNS_TOPIC_ARN, response, idx, run, nDescribe, last,
                   decided, nStart, nStop, nPubs, anyFailed, side, prevSide,
                   prevOk, prevTransit>>

Next == LoadModule \/ Invoke \/ NextInstance \/ ProcessInstance \/ Return \/ Settle

Spec == Init /\ [][Next]_vars

\* ----------------------------------------------------------- properties
\* the workday window as the specification words it: 03:30:00 <= t < 08:00:00
Inside(t) == 3 * 3600 + 30 * 60 <= t /\ t < 8 * 3600

CallsFor(k) == nStart[k] + nStop[k]

\* the tag value the specification expects in a report field
TagOf(inst, key) ==
    IF inst.HasTags /\ \E j \in 1..Len(inst.Tags) : inst.Tags[j].Key = key
    THEN inst.Tags[CHOOSE j \in 1..Len(inst.Tags) : inst.Tags[j].Key = key].Value
    ELSE "N/A"

\* C1: at a time inside the window a listed-stopped instance gets a start
\* call naming exactly its id, and a listed-running instance gets no call.
C1_InsideWindow ==
    (last.valid /\ Inside(last.t)) =>
        /\ (last.inst.State = "stopped" =>
               /\ last.call = "start"
               /\ last.callIds = <<last.inst.InstanceId>>
               /\ nStart[last.id] = 1 /\ nStop[last.id] = 0)
        /\ (last.inst.State = "running" =>
               /\ last.call = "none"
               /\ last.callIds = <<>>
               /\ CallsFor(last.id) = 0)

C1_Witness ==
    /\ last.valid /\ last.t = 12600
    /\ last.inst.State = "stopped" /\ last.call = "start"

\* C2: at a time outside the window (08:00:00 included) a listed-running
\* instance gets a stop call naming exactly its id, and a listed-stopped
\* instance gets no call.
C2_OutsideWindow ==
    (last.valid /\ ~Inside(last.t)) =>
        /\ (last.inst.State = "running" =>
               /\ last.call = "stop"
               /\ last.callIds = <<last.inst.InstanceId>>
               /\ nStop[last.id] = 1 /\ nStart[last.id] = 0)
        /\ (last.inst.State = "stopped" =>
               /\ last.call = "none"
               /\ last.callIds = <<>>
               /\ CallsFor(last.id) = 0)

C2_Witness ==
    /\ last.valid /\ last.t = 28800
    /\ last.inst.State = "running" /\ last.call = "stop"

\* C3: a failed state-change call never ends the scan: the handler stays in
\* the loop, the instances before the scan position are exactly the ones
\* evaluated, a returned run has evaluated every listed instance, and every
\* instance the policy chose a call for got that call.
C3_ScanContinues ==
    /\ (anyFailed => pc \in {"next", "scan", "returned"})
    /\ (pc \in {"next", "scan"} =>
          \A k \in 1..Len(response) : (decided[k] # "unseen") <=> (k < idx))
    /\ (pc = "returned" =>
          \A k \in 1..Len(response) : decided[k] # "unseen")
    /\ \A k \in Ids : (decided[k] \in {"start", "stop"}) <=> (CallsFor(k) = 1)

C3_Witness ==
    /\ anyFailed /\ last.valid /\ ~last.raised
    /\ last.call # "none" /\ CallsFor(last.id) = 1

\* C4 as claimed: inside the window every instance not listed as running is
\* started, outside it every instance not listed as stopped is stopped.
C4_Original ==
    last.valid =>
        /\ (Inside(last.t) /\ last.inst.State # "running" => last.call = "start")
        /\ (~Inside(last.t) /\ last.inst.State # "stopped" => last.call = "stop")

\* C4 amended: inside the window an instance is started exactly when it is
\* listed as stopped, outside it an instance is stopped exactly when it is
\* listed as running; in every other listed state no call is made.
C4_OnlyStoppedOrRunning ==
    last.valid =>
        /\ (Inside(last.t) =>
               /\ (last.call = "start" <=> last.inst.State = "stopped")
               /\ last.call # "stop")
        /\ (~Inside(last.t) =>
               /\ (last.call = "stop" <=> last.inst.State = "running")
               /\ last.call # "start")

C4_Witness ==
    /\ last.valid /\ Inside(last.t)
    /\ last.inst.State = "pending" /\ last.call = "none"

\* C5: when the lookup of the topic ARN fails the run aborts: no listing, no
\* start or stop call and no publish ever happens.
C5_LookupFailureAborts ==
    (SNS_TOPIC_ARN = "unset" /\ pc # "load") =>
        /\ pc = "aborted"
        /\ run = 0 /\ nDescribe = 0 /\ response = <<>>
        /\ \A k \in Ids : CallsFor(k) = 0 /\ nPubs[k] = 0

C5_Witness == pc = "aborted" /\ Len(instances) > 0

\* C6: a raised state-change call leads to exactly one notification for the
\* instance, the failure report (Result FAILURE, Current State ERROR,
\* Previous State the listed state), and the scan moves to the next instance.
C6_FailureReport ==
    (last.valid /\ last.raised) =>
        /\ Len(last.reports) = 1
        /\ last.reports[1].Result = "FAILURE"
        /\ last.reports[1].CurrentState = "ERROR"
        /\ last.reports[1].PreviousState = last.inst.State
        /\ last.reports[1].InstanceId = last.id
        /\ nPubs[last.id] = 1
        /\ pc = "next" /\ idx = last.id + 1

C6_Witness ==
    /\ last.valid /\ last.raised /\ last.call = "stop"
    /\ Len(last.reports) = 1

\* C7: a publish that raises is ignored: one send attempt for the instance,
\* no second report, the state-change call made once and kept, and the scan
\* moves to the next instance.
C7_PublishFailureIgnored ==
    (last.valid /\ ~last.pubOk) =>
        /\ Len(last.reports) = 1
        /\ nPubs[last.id] = 1
        /\ CallsFor(last.id) = 1
        /\ (~last.raised => instances[last.id].State = AfterCall(last.inst.State, last.call))
        /\ pc = "next" /\ idx = last.id + 1

C7_Witness ==
    /\ last.valid /\ ~last.pubOk /\ ~last.raised
    /\ Len(last.reports) = 1 /\ last.reports[1].Result = "SUCCESS"

\* the run before this one returned with every call successful and read
\* times on one side of the window, and this run has read times on that
\* side only
SameSideRerun ==
    /\ run >= 2
    /\ prevOk
    /\ prevSide \in {"in", "out"}
    /\ side \in {"none", prevSide}

\* C8 as claimed: such a second run issues no start call, no stop call and
\* no notification.
C8_Original ==
    SameSideRerun => \A k \in Ids : CallsFor(k) = 0 /\ nPubs[k] = 0

\* C8 amended: such a second run issues no call and no notification for any
\* instance the first run did not list as pending or stopping.
C8_RerunNoOp ==
    SameSideRerun => \A k \in Ids \ prevTransit : CallsFor(k) = 0 /\ nPubs[k] = 0

\* an instance the previous run started (it is pending and was not listed
\* as pending) has been evaluated again inside the window and left alone
C8_Witness ==
    /\ SameSideRerun /\ prevSide = "in" /\ side = "in" /\ pc = "returned"
    /\ \E k \in Ids \ prevTransit :
         instances[k].State = "pending" /\ decided[k] = "none"

\* C9: every composed report carries the Name, Environment and Owner tag
\* values verbatim, 'N/A' for each tag that is absent, and the instance is
\* processed to the end whatever its tags are.
C9_TagFields ==
    last.valid =>
        /\ \A j \in 1..Len(last.reports) :
              /\ last.reports[j].InstanceName = TagOf(last.inst, "Name")
              /\ last.reports[j].Environment = TagOf(last.inst, "Environment")
              /\ last.reports[j].Owner = TagOf(last.inst, "Owner")
        /\ pc = "next" /\ idx = last.id + 1

C9_Witness ==
    /\ last.valid /\ Len(last.reports) = 1
    /\ last.reports[1].Owner = "ana"
    /\ last.reports[1].InstanceName = "N/A"
    /\ last.reports[1].Environment = "N/A"

\* C10: within a run an instance gets at most one state-change call and at
\* most one publish attempt, a publish attempt exactly when it got a call,
\* and neither when the policy outcome is none.
C10_OneCallOnePublish ==
    /\ \A k \in Ids :
          /\ CallsFor(k) <= 1
          /\ nPubs[k] <= 1
          /\ (nPubs[k] = 1 <=> CallsFor(k) = 1)
          /\ (decided[k] = "none" => CallsFor(k) = 0 /\ nPubs[k] = 0)
    /\ (last.valid /\ last.call = "none" => last.reports = <<>> /\ last.callIds = <<>>)

C10_Witness ==
    /\ pc = "returned"
    /\ \E k \in Ids : nStart[k] = 1 /\ nPubs[k] = 1
    /\ \E k \in Ids : decided[k] = "none" /\ nPubs[k] = 0

====
